---- MODULE Spec2Model ----
(***************************************************************************)
(* Verification model of the d2l TensorFlow notebooks.                     *)
(*                                                                         *)
(* Each notebook session is modelled by one specification:                          *)
(*   SpecDevice  - the "GPUs" notebook: try_gpu, try_all_gpus, tensor      *)
(*                 creation under device scopes, `Z = X`, `Y + Z`;         *)
(*   SpecDefer   - the "Deferred Initialization" notebook: a Sequential    *)
(*                 of Dense layers, per-layer and whole-net get_weights,   *)
(*                 the first forward pass;                                 *)
(*   SpecDense   - the "Custom Layers" notebook: MyDense.build / call.     *)
(*                                                                         *)
(* Framework behaviour (device placement, Keras building) is modelled from *)
(* the notebook cells together with their recorded outputs.                *)
(***************************************************************************)
EXTENDS Integers, Sequences, FiniteSets, TLC

VARIABLES
    num_gpus,      \* len(tf.config.experimental.list_physical_devices('GPU'))
    heap,          \* the tensors allocated so far; heap[k].device is where tensor k lives
    env,           \* notebook names -> index into heap (0: name not bound yet)
    last_dev,      \* the last try_gpu call and what it returned
    last_devs,     \* the last try_all_gpus call and what it returned
    last_assign,   \* the last `with try_gpu(i): dst = src` cell that ran
    last_add,      \* the last `a + b` cell that ran
    net,           \* the Sequential model of the deferred-initialization notebook
    layer_obs,     \* the last net.layers[i].get_weights() and what it returned
    net_obs,       \* the last net.get_weights() and what it returned
    fwd_obs,       \* the last net(X) call
    dense,         \* the MyDense layer of the custom-layers notebook
    dense_in,      \* the tensor X the layer is called on
    dense_obs,     \* the last dense(X) call and what it returned
    init_data,     \* what tf.random.uniform draws inside MyInit.__call__
    init_obs,      \* the last MyInit()(shape) call and what it returned
    center_in,     \* the tensor the CenteredLayer is called on
    center,        \* the CenteredLayer
    center_obs,    \* the last layer(inputs) call and what it returned
    gx,            \* the tf.Variable the gradients are taken with respect to
    tape,          \* the tf.GradientTape t: its recorded ops and whether it was used
    fpc,           \* where the call f(a) stands
    grad_obs,      \* the last t.gradient(target, x) call and what it returned
    data_set,      \* the arguments of load_array
    data_it,       \* the iterator over the dataset load_array returned
    data_out       \* the batches the iterator has yielded in this pass

device_vars == <<num_gpus, heap, env, last_dev, last_devs, last_assign, last_add>>
defer_vars  == <<net, layer_obs, net_obs, fwd_obs>>
dense_vars  == <<dense, dense_in, dense_obs>>
init_vars   == <<init_data, init_obs>>
center_vars == <<center_in, center, center_obs>>
grad_vars   == <<gx, tape, fpc, grad_obs>>
data_vars   == <<data_set, data_it, data_out>>
more_vars   == <<init_vars, center_vars, grad_vars, data_vars>>
vars == <<device_vars, defer_vars, dense_vars, more_vars>>

None == [none |-> TRUE]

\* The notebooks of the GPU, deferred-initialization and custom-dense
\* sessions have not been opened.
IdleFirst ==
    /\ num_gpus = 0
    /\ heap = <<>>
    /\ env = [name \in {"x", "X", "Y", "Z", "Z2"} |-> 0]
    /\ last_dev = None
    /\ last_devs = None
    /\ last_assign = None
    /\ last_add = None
    /\ net = None
    /\ layer_obs = None
    /\ net_obs = None
    /\ fwd_obs = None
    /\ dense = None
    /\ dense_in = None
    /\ dense_obs = None

\* MyInit has not been called.
IdleInit ==
    /\ init_data = None
    /\ init_obs = None

\* No CenteredLayer has been made.
IdleCenter ==
    /\ center_in = None
    /\ center = None
    /\ center_obs = None

\* No gradient tape has been opened.
IdleGrad ==
    /\ gx = None
    /\ tape = None
    /\ fpc = "idle"
    /\ grad_obs = None

\* load_array has not been called.
IdleData ==
    /\ data_set = None
    /\ data_it = None
    /\ data_out = None

\* The notebooks of the later sections have not been opened.
IdleMore == IdleInit /\ IdleCenter /\ IdleGrad /\ IdleData

(***************************************************************************)
(* Bounds                                                                  *)
(***************************************************************************)
MaxGpus    == 2    \* num_gpus ranges over 0..MaxGpus
MaxIdx     == 2    \* try_gpu is called with i in -MaxIdx..MaxIdx
MaxScope   == 1    \* device scopes of the cells are try_gpu(0..MaxScope)
MaxTensors == 2    \* tensors allocated in one session

(***************************************************************************)
(* Devices                                                                 *)
(***************************************************************************)
\* tf.device(f'/GPU:{i}')
GPU(i) == [type |-> "GPU", index |-> i]

\* tf.device('/CPU:0')
CPU0 == [type |-> "CPU", index |-> 0]

\* The devices a machine with n GPUs has: the CPU and GPU 0 .. GPU n-1.
Exists(d, n) == d = CPU0 \/ (d.type = "GPU" /\ d.index \in 0..(n - 1))

\* def try_gpu(i=0)
try_gpu(i, n) ==
    IF n >= i + 1 THEN GPU(i) ELSE CPU0

\* A try_all_gpus that forgets the CPU fallback.
try_all_gpus_no_fallback(n) ==
    [k \in 1..n |-> GPU(k - 1)]

\* def try_all_gpus()
try_all_gpus(n) ==
    LET devices == [k \in 1..n |-> GPU(k - 1)]      \* for i in range(num_gpus)
    IN  IF devices # <<>> THEN devices ELSE <<CPU0>>

\* Where a tensor created outside every device scope is placed: the cell
\* `x = tf.constant([1, 2, 3]); x.device` prints .../device:GPU:0 on the
\* two-GPU machine that ran the notebook.
DefaultDevice(n) ==
    IF n >= 1 THEN GPU(0) ELSE CPU0

Names == {"x", "X", "Y", "Z", "Z2"}

DeviceOf(name) == heap[env[name]].device

Bound(name) == env[name] # 0

(***************************************************************************)
(* The cells of the GPU notebook                                           *)
(***************************************************************************)
\* try_gpu(), try_gpu(10), ...
TryGpu ==
    \E i \in (-MaxIdx)..MaxIdx :
        /\ last_dev' = [i |-> i, dev |-> try_gpu(i, num_gpus)]
        /\ UNCHANGED <<num_gpus, heap, env, last_devs, last_assign, last_add, defer_vars, dense_vars, more_vars>>

\* try_all_gpus()
TryAllGpus ==
    /\ last_devs' = [devices |-> try_all_gpus(num_gpus)]
    /\ UNCHANGED <<num_gpus, heap, env, last_dev, last_assign, last_add, defer_vars, dense_vars, more_vars>>

\* A tensor-creating op run on device d, its result bound to name.
Create(name, d) ==
    /\ Len(heap) < MaxTensors
    /\ heap' = Append(heap, [device |-> d])
    /\ env' = [env EXCEPT ![name] = Len(heap) + 1]
    /\ UNCHANGED <<num_gpus, last_dev, last_devs, last_assign, last_add, defer_vars, dense_vars, more_vars>>

\* x = tf.constant([1, 2, 3])
CreateDefault == Create("x", DefaultDevice(num_gpus))

\* with try_gpu(): X = tf.ones((2, 3))
CreateX == \E i \in 0..MaxScope : Create("X", try_gpu(i, num_gpus))

\* with try_gpu(1): Y = tf.random.uniform((2, 3))
CreateY == \E i \in 0..MaxScope : Create("Y", try_gpu(i, num_gpus))

\* An assignment that always makes a fresh tensor on the device of the scope.
AssignAlwaysCopy(dst, src, scope) ==
    /\ Bound(src)
    /\ Len(heap) < MaxTensors
    /\ heap' = Append(heap, [device |-> scope])
    /\ env' = [env EXCEPT ![dst] = Len(heap) + 1]
    /\ last_assign' = [dst |-> dst, src |-> src, scope |-> scope,
                       src_id |-> env[src], dst_id |-> env'[dst],
                       src_dev |-> heap'[env'[src]].device,
                       dst_dev |-> heap'[env'[dst]].device,
                       allocated |-> Len(heap') - Len(heap)]
    /\ UNCHANGED <<num_gpus, last_dev, last_devs, last_add, defer_vars, dense_vars, more_vars>>

\* with <scope>: dst = src
\* A Python assignment binds the name dst to the object src names; it runs
\* no framework op, so the device scope has nothing to place.
Assign(dst, src, scope) ==
    /\ Bound(src)
    /\ heap' = heap
    /\ env' = [env EXCEPT ![dst] = env[src]]
    /\ last_assign' = [dst |-> dst, src |-> src, scope |-> scope,
                       src_id |-> env[src], dst_id |-> env'[dst],
                       src_dev |-> heap'[env'[src]].device,
                       dst_dev |-> heap'[env'[dst]].device,
                       allocated |-> Len(heap') - Len(heap)]
    /\ UNCHANGED <<num_gpus, last_dev, last_devs, last_add, defer_vars, dense_vars, more_vars>>

\* with try_gpu(1): Z = X
AssignZ == \E i \in 0..MaxScope : Assign("Z", "X", try_gpu(i, num_gpus))

\* with try_gpu(1): Z2 = Z
AssignZ2 == \E i \in 0..MaxScope : Assign("Z2", "Z", try_gpu(i, num_gpus))

\* a + b
\* The cell `Y + Z` prints a result although Y was created on /GPU:1 and Z
\* names the tensor X created on /GPU:0.
Add(a, b) ==
    /\ Bound(a) /\ Bound(b)
    /\ last_add' = [lhs |-> a, rhs |-> b,
                    lhs_dev |-> DeviceOf(a), rhs_dev |-> DeviceOf(b),
                    ok |-> TRUE]
    /\ UNCHANGED <<num_gpus, heap, env, last_dev, last_devs, last_assign, defer_vars, dense_vars, more_vars>>

\* Y + Z
AddYZ == Add("Y", "Z")

\* X + Y
AddXY == Add("X", "Y")

InitDevice ==
    /\ num_gpus \in 0..MaxGpus
    /\ heap = <<>>
    /\ env = [name \in Names |-> 0]
    /\ last_dev = None
    /\ last_devs = None
    /\ last_assign = None
    /\ last_add = None
    \* the other notebooks are not open
    /\ net = None
    /\ layer_obs = None
    /\ net_obs = None
    /\ fwd_obs = None
    /\ dense = None
    /\ dense_in = None
    /\ dense_obs = None
    /\ IdleMore

NextDevice ==
    \/ TryGpu
    \/ TryAllGpus
    \/ CreateDefault
    \/ CreateX
    \/ CreateY
    \/ AssignZ
    \/ AssignZ2
    \/ AddYZ
    \/ AddXY

(***************************************************************************)
(* Deferred initialization: Sequential of Dense layers                     *)
(***************************************************************************)
MaxDim == 2    \* the last dimension of the input ranges over 1..MaxDim and InputDim

\* X = tf.random.uniform((2, 20))
InputDim == 20

\* The networks the notebooks build without an input shape, by their units:
\* Sequential([Dense(256), Dense(10)]), Sequential([MyDense(8), MyDense(1)]),
\* Sequential([Dense(1)]).
Architectures == {<<256, 10>>, <<8, 1>>, <<1>>}

\* A layer constructor that allocates its parameters at once, guessing a
\* square weight matrix.
NewDenseEager(units) ==
    [units |-> units, built |-> TRUE, input_spec |-> units,
     weights |-> << <<units, units>>, <<units>> >>]

\* tf.keras.layers.Dense(units) / MyDense(units): only the width is stored.
NewDense(units) ==
    [units |-> units, built |-> FALSE, input_spec |-> 0, weights |-> <<>>]

\* tf.keras.models.Sequential([...])
Sequential(units_seq) ==
    [layers |-> [k \in 1..Len(units_seq) |-> NewDense(units_seq[k])],
     built |-> FALSE]

\* A build that lays the weight matrix out as (units, inputs).
DenseBuildTransposed(layer, last_dim) ==
    [layer EXCEPT !.built = TRUE, !.input_spec = last_dim,
                  !.weights = << <<layer.units, last_dim>>, <<layer.units>> >>]

\* build(self, X_shape): weight of shape [X_shape[-1], units], bias of shape
\* [units]; weights are listed weight first, bias second. A built layer
\* is not built again.
DenseBuild(layer, last_dim) ==
    IF layer.built
    THEN layer
    ELSE [layer EXCEPT !.built = TRUE, !.input_spec = last_dim,
                       !.weights = << <<last_dim, layer.units>>, <<layer.units>> >>]

\* The output of a dense layer has the layer's units as its last dimension.
DenseOutDim(layer) == layer.units

\* net(X): the layers run in order, each one built on the shape of the
\* output of the one before it.
RECURSIVE CallLayers(_, _, _)
CallLayers(layers, k, in_dim) ==
    IF k > Len(layers)
    THEN layers
    ELSE LET built_k == DenseBuild(layers[k], in_dim)
         IN  CallLayers([layers EXCEPT ![k] = built_k], k + 1, DenseOutDim(built_k))

\* layer.get_weights()
LayerGetWeights(layer) == layer.weights

RECURSIVE ConcatWeights(_, _)
ConcatWeights(layers, k) ==
    IF k > Len(layers)
    THEN <<>>
    ELSE LayerGetWeights(layers[k]) \o ConcatWeights(layers, k + 1)

\* A net.get_weights() that does not look at whether the model was built.
NetGetWeightsUnchecked(n) ==
    [ok |-> TRUE, weights |-> ConcatWeights(n.layers, 1)]

\* net.get_weights(): "would throw an error since the weights have not been
\* initialized yet"; on a built model, the weights of the layers in order.
NetGetWeights(n) ==
    IF ~n.built
    THEN [ok |-> FALSE, weights |-> <<>>]
    ELSE [ok |-> TRUE, weights |-> ConcatWeights(n.layers, 1)]

\* [net.layers[i].get_weights() for i in range(len(net.layers))], one i
QueryLayer ==
    \E k \in 1..Len(net.layers) :
        /\ layer_obs' = [layer |-> k,
                         weights |-> LayerGetWeights(net.layers[k]),
                         after_forward |-> fwd_obs # None]
        /\ UNCHANGED <<net, net_obs, fwd_obs, device_vars, dense_vars, more_vars>>

\* net.get_weights()
QueryNet ==
    /\ net_obs' = [result |-> NetGetWeights(net),
                   after_forward |-> fwd_obs # None]
    /\ UNCHANGED <<net, layer_obs, fwd_obs, device_vars, dense_vars, more_vars>>

\* net(X) with X of shape (2, d). A built layer accepts only inputs whose
\* last dimension is the one it was built on; the call fails otherwise and
\* leaves the model as it was.
Forward ==
    \E d \in (1..MaxDim) \cup {InputDim} :
        IF net.built /\ net.layers[1].input_spec # d
        THEN /\ fwd_obs' = [fwd_obs EXCEPT !.d = d, !.ok = FALSE]
             /\ UNCHANGED <<net, layer_obs, net_obs, device_vars, dense_vars, more_vars>>
        ELSE /\ net' = [layers |-> CallLayers(net.layers, 1, d), built |-> TRUE]
             /\ fwd_obs' = [first_d |-> IF fwd_obs = None THEN d ELSE fwd_obs.first_d,
                            d |-> d, ok |-> TRUE]
             /\ UNCHANGED <<layer_obs, net_obs, device_vars, dense_vars, more_vars>>

InitDefer ==
    /\ net \in {Sequential(a) : a \in Architectures}
    /\ layer_obs = None
    /\ net_obs = None
    /\ fwd_obs = None
    \* the other notebooks are not open
    /\ num_gpus = 0
    /\ heap = <<>>
    /\ env = [name \in Names |-> 0]
    /\ last_dev = None
    /\ last_devs = None
    /\ last_assign = None
    /\ last_add = None
    /\ dense = None
    /\ dense_in = None
    /\ dense_obs = None
    /\ IdleMore

NextDefer ==
    \/ QueryLayer
    \/ QueryNet
    \/ Forward

(***************************************************************************)
(* Custom layers: MyDense                                                  *)
(***************************************************************************)
MaxBatch == 1    \* rows of the input X
MaxIn    == 2    \* columns of the input X, rows of the weight
MaxUnits == 1    \* units of the layer

\* The values an input element or a bias element takes.
Vals == {-1, 0, 1}

\* The values a weight element takes.
WeightVals == {-1, 1}

\* Matrices are sequences of rows.
Matrices(rows, cols, vals) == [1..rows -> [1..cols -> vals]]

Vectors(n, vals) == [1..n -> vals]

Rows(M) == Len(M)

Cols(M) == Len(M[1])

RECURSIVE Dot(_, _, _, _, _)
Dot(X, W, r, c, k) ==
    IF k = 0 THEN 0 ELSE X[r][k] * W[k][c] + Dot(X, W, r, c, k - 1)

\* tf.matmul(X, W)
MatMul(X, W) ==
    [r \in 1..Rows(X) |-> [c \in 1..Cols(W) |-> Dot(X, W, r, c, Cols(X))]]

\* M + b, the vector b broadcast over the rows of M
BiasAdd(M, b) ==
    [r \in 1..Rows(M) |-> [c \in 1..Cols(M) |-> M[r][c] + b[c]]]

\* tf.nn.relu
Relu(M) ==
    [r \in 1..Rows(M) |-> [c \in 1..Cols(M) |-> IF M[r][c] > 0 THEN M[r][c] ELSE 0]]

\* MyDense.__init__
NewMyDense(units) ==
    [units |-> units, built |-> FALSE, weight |-> <<>>, bias |-> <<>>]

\* MyDense.build: the weight is a draw w0 of the random normal initializer,
\* of shape [X_shape[-1], units]; the bias is zeros of shape [units].
MyDenseBuild(layer, w0) ==
    [layer EXCEPT !.built = TRUE,
                  !.weight = w0,
                  !.bias = [c \in 1..layer.units |-> 0]]

\* A call that leaves out the activation.
MyDenseCallLinear(layer, X) ==
    BiasAdd(MatMul(X, layer.weight), layer.bias)

\* MyDense.call
MyDenseCall(layer, X) ==
    LET linear == BiasAdd(MatMul(X, layer.weight), layer.bias)
    IN  Relu(linear)

\* dense(X) on a layer that was not called before: build on the shape of X,
\* then call.
DenseFirstCall ==
    /\ ~dense.built
    /\ \E w0 \in Matrices(Cols(dense_in), dense.units, WeightVals) :
        /\ dense' = MyDenseBuild(dense, w0)
        /\ dense_obs' = [ok |-> TRUE, out |-> MyDenseCall(dense', dense_in)]
    /\ UNCHANGED <<dense_in, device_vars, defer_vars, more_vars>>

\* dense(X) on a built layer; tf.matmul rejects an X whose columns are not
\* the rows of the weight.
DenseCall ==
    /\ dense.built
    /\ dense_obs' = IF Cols(dense_in) = Rows(dense.weight)
                    THEN [ok |-> TRUE, out |-> MyDenseCall(dense, dense_in)]
                    ELSE [ok |-> FALSE, out |-> <<>>]
    /\ UNCHANGED <<dense, dense_in, device_vars, defer_vars, more_vars>>

\* A MyDense layer, fresh or with parameters that training has moved, and
\* an input to call it on.
InitDense ==
    /\ \E units \in 1..MaxUnits :
        \/ dense = NewMyDense(units)
        \/ \E k \in 1..MaxIn :
            dense \in {[units |-> units, built |-> TRUE, weight |-> w, bias |-> b] :
                          w \in Matrices(k, units, WeightVals), b \in Vectors(units, Vals)}
    /\ \E m \in 1..MaxBatch, k \in 1..MaxIn : dense_in \in Matrices(m, k, Vals)
    /\ dense_obs = None
    \* the other notebooks are not open
    /\ num_gpus = 0
    /\ heap = <<>>
    /\ env = [name \in Names |-> 0]
    /\ last_dev = None
    /\ last_devs = None
    /\ last_assign = None
    /\ last_add = None
    /\ net = None
    /\ layer_obs = None
    /\ net_obs = None
    /\ fwd_obs = None
    /\ IdleMore

NextDense ==
    \/ DenseFirstCall
    \/ DenseCall

(***************************************************************************)
(* Custom initialization: MyInit                                           *)
(***************************************************************************)
MaxElems == 2    \* elements of the tensor the initializer is asked for

\* tf.random.uniform(shape, -10, 10, ...)
InitMinval == -10

InitMaxval == 10

\* tf.abs(data) >= 5
InitThreshold == 5

Abs(v) == IF v < 0 THEN -v ELSE v

\* The draws of tf.random.uniform(shape, minval, maxval) for a shape of n
\* elements: each element is in [minval, maxval), minval included and
\* maxval not.
Uniform(n, minval, maxval) == [1..n -> minval..(maxval - 1)]

\* A __call__ whose comparison is strict.
MyInitStrict(data) ==
    LET factor == [k \in DOMAIN data |->
                      IF Abs(data[k]) > InitThreshold THEN 1 ELSE 0]
    IN  [k \in DOMAIN data |-> data[k] * factor[k]]

\* MyInit.__call__, after the draw: factor is the cast of (|data| >= 5) to
\* 1 or 0, and the result is data * factor.
MyInit(data) ==
    LET factor == [k \in DOMAIN data |->
                      IF Abs(data[k]) >= InitThreshold THEN 1 ELSE 0]
    IN  [k \in DOMAIN data |-> data[k] * factor[k]]

\* MyInit()(shape)
InitCall ==
    /\ init_obs' = [shape |-> Len(init_data), out |-> MyInit(init_data)]
    /\ UNCHANGED <<init_data, device_vars, defer_vars, dense_vars,
                   center_vars, grad_vars, data_vars>>

InitInit ==
    /\ \E n \in 1..MaxElems : init_data \in Uniform(n, InitMinval, InitMaxval)
    /\ init_obs = None
    /\ IdleFirst /\ IdleCenter /\ IdleGrad /\ IdleData

NextInit ==
    \/ InitCall

(***************************************************************************)
(* Custom layers: CenteredLayer                                            *)
(***************************************************************************)
MaxRows == 2    \* rows of the input of the CenteredLayer
MaxCols == 2    \* columns of the input of the CenteredLayer

\* The values an element of an integer input takes.
CenterVals == {-1, 0, 2}

RECURSIVE SumSeq(_, _)
SumSeq(row, k) == IF k = 0 THEN 0 ELSE row[k] + SumSeq(row, k - 1)

RECURSIVE SumRows(_, _)
SumRows(M, r) == IF r = 0 THEN 0 ELSE SumSeq(M[r], Len(M[r])) + SumRows(M, r - 1)

\* tf.reduce_sum(M): the sum of all elements
ReduceSum(M) == SumRows(M, Len(M))

\* The number of elements of M.
Size(M) == Rows(M) * Cols(M)

\* Integer division that rounds toward zero.
TruncDiv(a, b) == IF a >= 0 THEN a \div b ELSE -((-a) \div b)

\* tf.reduce_mean(M) of an integer tensor: one mean over all elements,
\* computed in the tensor's own type, so the division is integer division.
ReduceMean(M) == TruncDiv(ReduceSum(M), Size(M))

\* A call that centres every row on its own mean.
CenteredCallPerRow(inputs) ==
    [r \in 1..Rows(inputs) |-> [c \in 1..Cols(inputs) |->
        inputs[r][c] - TruncDiv(SumSeq(inputs[r], Cols(inputs)), Cols(inputs))]]

\* A call that subtracts the sum instead of the mean.
CenteredCallSum(inputs) ==
    [r \in 1..Rows(inputs) |-> [c \in 1..Cols(inputs) |->
        inputs[r][c] - ReduceSum(inputs)]]

\* CenteredLayer.call
CenteredCall(inputs) ==
    [r \in 1..Rows(inputs) |-> [c \in 1..Cols(inputs) |->
        inputs[r][c] - ReduceMean(inputs)]]

\* CenteredLayer(): __init__ only calls super().__init__(); the class has
\* no build and adds no weight.
NewCenteredLayer == [weights |-> <<>>]

\* layer(inputs)
CenterCall ==
    /\ center_obs' = [out |-> CenteredCall(center_in), weights |-> center.weights]
    /\ UNCHANGED <<center_in, center, device_vars, defer_vars, dense_vars,
                   init_vars, grad_vars, data_vars>>

InitCenter ==
    /\ \E m \in 1..MaxRows, n \in 1..MaxCols : center_in \in Matrices(m, n, CenterVals)
    /\ center = NewCenteredLayer
    /\ center_obs = None
    /\ IdleFirst /\ IdleInit /\ IdleGrad /\ IdleData

NextCenter ==
    \/ CenterCall

(***************************************************************************)
(* Automatic differentiation: tf.GradientTape                              *)
(***************************************************************************)
MaxLen   == 2    \* length of the vector x
MaxCalls == 2    \* t.gradient calls on one tape
MaxShift == 2    \* the scalar a has magnitude in [2^-MaxShift, 2)
MaxOps   == 13   \* ops one tape records while f loops

\* The values an element of x takes.
GradVals == {-1, 0, 2}

\* A tensor of rank 0 (a scalar, one element) or rank 1 (a vector).
Scalar(v) == [rank |-> 0, data |-> <<v>>]

Vector(seq) == [rank |-> 1, data |-> seq]

\* The ops a tape records; a and b are the positions on the tape of the
\* operands, c a Python constant.
VarNode == [op |-> "var", a |-> 0, b |-> 0, c |-> 0]

\* tf.tensordot(x, x, axes=1)
DotNode(a, b) == [op |-> "dot", a |-> a, b |-> b, c |-> 0]

\* 2 * t, 100 * t
ScaleNode(c, a) == [op |-> "scale", a |-> a, b |-> 0, c |-> c]

\* tf.reduce_sum(t)
SumNode(a) == [op |-> "sum", a |-> a, b |-> 0, c |-> 0]

\* s * t, elementwise
MulNode(a, b) == [op |-> "mul", a |-> a, b |-> b, c |-> 0]

\* tf.stop_gradient(t)
StopNode(a) == [op |-> "stop", a |-> a, b |-> 0, c |-> 0]

RECURSIVE DotSeq(_, _, _)
DotSeq(u, v, k) == IF k = 0 THEN 0 ELSE u[k] * v[k] + DotSeq(u, v, k - 1)

\* The value of the op at position k of the tape, x being the variable.
RECURSIVE Value(_, _, _)
Value(nodes, x, k) ==
    LET n == nodes[k]
    IN  CASE n.op = "var"   -> x
          [] n.op = "dot"   ->
                LET u == Value(nodes, x, n.a).data
                    v == Value(nodes, x, n.b).data
                IN  Scalar(DotSeq(u, v, Len(u)))
          [] n.op = "scale" ->
                LET t == Value(nodes, x, n.a)
                IN  [t EXCEPT !.data = [j \in DOMAIN t.data |-> n.c * t.data[j]]]
          [] n.op = "sum"   ->
                LET t == Value(nodes, x, n.a).data
                IN  Scalar(SumSeq(t, Len(t)))
          [] n.op = "mul"   ->
                LET u == Value(nodes, x, n.a)
                    v == Value(nodes, x, n.b).data
                IN  [u EXCEPT !.data = [j \in DOMAIN u.data |-> u.data[j] * v[j]]]
          [] n.op = "stop"  -> Value(nodes, x, n.a)

\* Whether the op at position k depends on the variable along a path the
\* gradient can flow back on.
RECURSIVE Reaches(_, _)
Reaches(nodes, k) ==
    LET n == nodes[k]
    IN  CASE n.op = "var"  -> TRUE
          [] n.op = "stop" -> FALSE
          [] n.op \in {"scale", "sum"} -> Reaches(nodes, n.a)
          [] n.op \in {"dot", "mul"}   -> Reaches(nodes, n.a) \/ Reaches(nodes, n.b)

\* adj with w added, element by element, to the adjoint of position i.
Accumulate(adj, i, w) ==
    [adj EXCEPT ![i] = [j \in DOMAIN adj[i] |-> adj[i][j] + w[j]]]

\* A backward step of the dot product that credits only its first operand.
BackDotFirstOnly(nodes, x, adj, k) ==
    LET n == nodes[k]
        g == adj[k][1]
        vb == Value(nodes, x, n.b).data
    IN  Accumulate(adj, n.a, [j \in DOMAIN vb |-> g * vb[j]])

\* Backward step of the dot product <u, v>: u gets g * v and v gets g * u.
BackDot(nodes, x, adj, k) ==
    LET n == nodes[k]
        g == adj[k][1]
        va == Value(nodes, x, n.a).data
        vb == Value(nodes, x, n.b).data
        adj1 == Accumulate(adj, n.a, [j \in DOMAIN vb |-> g * vb[j]])
    IN  Accumulate(adj1, n.b, [j \in DOMAIN va |-> g * va[j]])

\* Backward step of c * t: t gets c * g.
BackScale(nodes, x, adj, k) ==
    LET n == nodes[k]
    IN  Accumulate(adj, n.a, [j \in DOMAIN adj[k] |-> n.c * adj[k][j]])

\* Backward step of reduce_sum(t): every element of t gets g.
BackSum(nodes, x, adj, k) ==
    LET n == nodes[k]
    IN  Accumulate(adj, n.a, [j \in DOMAIN adj[n.a] |-> adj[k][1]])

\* Backward step of s * t: s gets g * t and t gets g * s.
BackMul(nodes, x, adj, k) ==
    LET n == nodes[k]
        va == Value(nodes, x, n.a).data
        vb == Value(nodes, x, n.b).data
        adj1 == Accumulate(adj, n.a, [j \in DOMAIN vb |-> adj[k][j] * vb[j]])
    IN  Accumulate(adj1, n.b, [j \in DOMAIN va |-> adj[k][j] * va[j]])

\* A backward step of stop_gradient that lets the gradient through.
BackStopLeaky(nodes, x, adj, k) ==
    Accumulate(adj, nodes[k].a, adj[k])

\* Backward step of stop_gradient(t): nothing flows back to t.
BackStop(nodes, x, adj, k) == adj

\* The backward pass from position k down to the variable.
RECURSIVE Back(_, _, _, _)
Back(nodes, x, adj, k) ==
    IF k = 0
    THEN adj
    ELSE LET op == nodes[k].op
             next == CASE op = "var"   -> adj
                       [] op = "dot"   -> BackDot(nodes, x, adj, k)
                       [] op = "scale" -> BackScale(nodes, x, adj, k)
                       [] op = "sum"   -> BackSum(nodes, x, adj, k)
                       [] op = "mul"   -> BackMul(nodes, x, adj, k)
                       [] op = "stop"  -> BackStop(nodes, x, adj, k)
         IN  Back(nodes, x, next, k - 1)

\* t.gradient(target, x): the adjoint of the target starts as ones (a
\* target that is not a scalar is summed), all others as zeros; the result
\* has the shape of x, and is None when the target does not depend on x.
Gradient(nodes, x, target) ==
    LET shape(j) == DOMAIN Value(nodes, x, j).data
        adj0 == [j \in 1..Len(nodes) |->
                    [i \in shape(j) |-> IF j = target THEN 1 ELSE 0]]
        adj == Back(nodes, x, adj0, target)
    IN  IF Reaches(nodes, target)
        THEN [rank |-> x.rank, data |-> adj[1]]
        ELSE None

NoNames == [name \in {"y", "u", "z", "d"} |-> 0]

\* with tf.GradientTape(persistent=...) as t: the ops of the block, in
\* order, and the names the block binds to them.
NewTape(cell, persistent, nodes, names) ==
    [cell |-> cell, persistent |-> persistent, nodes |-> nodes,
     names |-> names, calls |-> 0]

\* with tf.GradientTape() as t: y = 2 * tf.tensordot(x, x, axes=1)
RecordDot ==
    /\ fpc = "idle"
    /\ tape' = NewTape("dot", FALSE,
                       <<VarNode, DotNode(1, 1), ScaleNode(2, 2)>>,
                       [NoNames EXCEPT !["y"] = 3])
    /\ UNCHANGED <<gx, fpc, grad_obs, device_vars, defer_vars, dense_vars,
                   init_vars, center_vars, data_vars>>

\* with tf.GradientTape() as t: y = tf.reduce_sum(x)
RecordSum ==
    /\ fpc = "idle"
    /\ tape' = NewTape("sum", FALSE,
                       <<VarNode, SumNode(1)>>,
                       [NoNames EXCEPT !["y"] = 2])
    /\ UNCHANGED <<gx, fpc, grad_obs, device_vars, defer_vars, dense_vars,
                   init_vars, center_vars, data_vars>>

\* with tf.GradientTape() as t: y = x * x
RecordSquare ==
    /\ fpc = "idle"
    /\ tape' = NewTape("square", FALSE,
                       <<VarNode, MulNode(1, 1)>>,
                       [NoNames EXCEPT !["y"] = 2])
    /\ UNCHANGED <<gx, fpc, grad_obs, device_vars, defer_vars, dense_vars,
                   init_vars, center_vars, data_vars>>

\* with tf.GradientTape(persistent=True) as t:
\*     y = x * x; u = tf.stop_gradient(y); z = u * x
RecordDetach ==
    /\ fpc = "idle"
    /\ tape' = NewTape("detach", TRUE,
                       <<VarNode, MulNode(1, 1), StopNode(2), MulNode(3, 1)>>,
                       [NoNames EXCEPT !["y"] = 2, !["u"] = 3, !["z"] = 4])
    /\ UNCHANGED <<gx, fpc, grad_obs, device_vars, defer_vars, dense_vars,
                   init_vars, center_vars, data_vars>>

\* A t.gradient that never releases the tape.
GradientCallNeverReleased(target) ==
    /\ tape # None
    /\ fpc \in {"idle", "done"}
    /\ tape.names[target] # 0
    /\ tape.calls < MaxCalls
    /\ tape' = [tape EXCEPT !.calls = tape.calls + 1]
    /\ grad_obs' = [cell |-> tape.cell, target |-> target,
                    persistent |-> tape.persistent, nth |-> tape.calls + 1,
                    ok |-> TRUE,
                    grad |-> Gradient(tape.nodes, gx, tape.names[target])]
    /\ UNCHANGED <<gx, fpc, device_vars, defer_vars, dense_vars,
                   init_vars, center_vars, data_vars>>

\* t.gradient(target, x), after the with block has ended. A tape that is
\* not persistent is released by its first gradient call and refuses the
\* next ("Set persistent=True to run t.gradient more than once").
GradientCall(target) ==
    /\ tape # None
    /\ fpc \in {"idle", "done"}
    /\ tape.names[target] # 0
    /\ tape.calls < MaxCalls
    /\ tape' = [tape EXCEPT !.calls = tape.calls + 1]
    /\ grad_obs' =
          IF ~tape.persistent /\ tape.calls >= 1
          THEN [cell |-> tape.cell, target |-> target,
                persistent |-> tape.persistent, nth |-> tape.calls + 1,
                ok |-> FALSE, grad |-> None]
          ELSE [cell |-> tape.cell, target |-> target,
                persistent |-> tape.persistent, nth |-> tape.calls + 1,
                ok |-> TRUE,
                grad |-> Gradient(tape.nodes, gx, tape.names[target])]
    /\ UNCHANGED <<gx, fpc, device_vars, defer_vars, dense_vars,
                   init_vars, center_vars, data_vars>>

\* x_grad = t.gradient(y, x)
GradientY == GradientCall("y")

\* x_grad = t.gradient(z, x)
GradientZ == GradientCall("z")

\* x = tf.Variable(tf.range(4, dtype=tf.float32))
InitGrad ==
    /\ \E n \in 1..MaxLen : gx \in {Vector(seq) : seq \in [1..n -> GradVals]}
    /\ tape = None
    /\ fpc = "idle"
    /\ grad_obs = None
    /\ IdleFirst /\ IdleInit /\ IdleCenter /\ IdleData

NextGrad ==
    \/ RecordDot
    \/ RecordSum
    \/ RecordSquare
    \/ RecordDetach
    \/ GradientY
    \/ GradientZ

(***************************************************************************)
(* Automatic differentiation through Python control flow: f(a)             *)
(***************************************************************************)
\* while tf.norm(b) < 1000
FlowThreshold == 1000

\* c = 100 * b
FlowFactor == 100

\* The significand of a float32 has 24 bits.
MantBits == 24

\* The significands the random scalar a is drawn with: 1.0, 1.28000009...,
\* 1.5 and the largest one.
FlowMants == {8388608, 10737419, 12582912, 16777215}

RECURSIVE Pow2(_)
Pow2(n) == IF n = 0 THEN 1 ELSE 2 * Pow2(n - 1)

\* The number of bits of n >= 0.
RECURSIVE Width(_)
Width(n) == IF n = 0 THEN 0 ELSE 1 + Width(n \div 2)

\* A float32 value mant * 2^exp: 2^23 <= |mant| < 2^24, or mant = 0.
Float(m, e) == [mant |-> m, exp |-> e]

FZero == Float(0, 0)

\* The float32 nearest to p * 2^e, ties to the even significand.
Round(p, e) ==
    LET sign == IF p < 0 THEN -1 ELSE 1
        s == Width(Abs(p)) - MantBits
    IN  IF p = 0
        THEN FZero
        ELSE IF s <= 0
        THEN Float(p * Pow2(-s), e + s)
        ELSE LET q == Abs(p) \div Pow2(s)
                 r == Abs(p) % Pow2(s)
                 half == Pow2(s - 1)
                 m == IF r > half \/ (r = half /\ q % 2 = 1) THEN q + 1 ELSE q
             IN  IF m = Pow2(MantBits)
                 THEN Float(sign * Pow2(MantBits - 1), e + s + 1)
                 ELSE Float(sign * m, e + s)

\* c * t in float32, c a small Python integer.
FScale(c, v) == Round(c * v.mant, v.exp)

\* n more bits of the quotient of r / den, after the bits q.
RECURSIVE LongDiv(_, _, _, _)
LongDiv(q, r, den, n) ==
    IF n = 0
    THEN [q |-> q, r |-> r]
    ELSE LongDiv(2 * q + (2 * r) \div den, (2 * r) % den, den, n - 1)

\* u / v in float32, v not zero: the quotient of the significands to two
\* bits more than a significand holds, a last bit telling whether anything
\* is left, rounded.
FDiv(u, v) ==
    LET num == Abs(u.mant)
        den == Abs(v.mant)
        sign == IF (u.mant < 0) = (v.mant < 0) THEN 1 ELSE -1
        d == LongDiv(num \div den, num % den, den, MantBits + 1)
        p == 2 * d.q + (IF d.r = 0 THEN 0 ELSE 1)
    IN  Round(sign * p, u.exp - v.exp - (MantBits + 2))

\* tf.norm(t) < c for a scalar t: sqrt(t * t) is |t| in float32, so the
\* test is |t| < c.
NormBelow(v, c) ==
    IF v.exp < 0
    THEN Abs(v.mant) \div Pow2(-v.exp) < c
    ELSE Abs(v.mant) * Pow2(v.exp) < c

\* The float32 value of the op at position k of the tape of f, a being
\* the variable.
RECURSIVE FValue(_, _, _)
FValue(nodes, a, k) ==
    LET n == nodes[k]
    IN  IF n.op = "var" THEN a ELSE FScale(n.c, FValue(nodes, a, n.a))

\* The op the tape recorded last: the current b inside f.
LastOp == Len(tape.nodes)

\* a = tf.Variable(...); with tf.GradientTape() as t: d = f(a), entered:
\* b = a * 2
FEnter ==
    /\ fpc = "ready"
    /\ tape' = NewTape("f", FALSE, <<VarNode, ScaleNode(2, 1)>>, NoNames)
    /\ fpc' = "while"
    /\ UNCHANGED <<gx, grad_obs, device_vars, defer_vars, dense_vars,
                   init_vars, center_vars, data_vars>>

\* while tf.norm(b) < 1000: b = b * 2
FWhile ==
    /\ fpc = "while"
    /\ IF NormBelow(FValue(tape.nodes, gx.data[1], LastOp), FlowThreshold)
       THEN /\ LastOp < MaxOps
            /\ tape' = [tape EXCEPT !.nodes = Append(@, ScaleNode(2, LastOp))]
            /\ fpc' = fpc
       ELSE /\ tape' = tape
            /\ fpc' = "if"
    /\ UNCHANGED <<gx, grad_obs, device_vars, defer_vars, dense_vars,
                   init_vars, center_vars, data_vars>>

\* if tf.reduce_sum(b) > 0: c = b  else: c = 100 * b;  return c
FIf ==
    /\ fpc = "if"
    /\ IF FValue(tape.nodes, gx.data[1], LastOp).mant > 0
       THEN tape' = [tape EXCEPT !.names["d"] = LastOp]
       ELSE tape' = [tape EXCEPT !.nodes = Append(@, ScaleNode(FlowFactor, LastOp)),
                                 !.names["d"] = LastOp + 1]
    /\ fpc' = "done"
    /\ UNCHANGED <<gx, grad_obs, device_vars, defer_vars, dense_vars,
                   init_vars, center_vars, data_vars>>

\* d_grad = t.gradient(d, a): the backward pass multiplies the constants
\* 2 and 100 of the ops, a product float32 holds exactly, and takes only
\* the shape from the values of the ops.
GradientD == GradientCall("d")

\* a = tf.Variable(tf.random.normal(shape=())): zero, or a significand
\* with either sign and a magnitude in [2^-MaxShift, 2).
InitFlow ==
    /\ gx \in {Scalar(FZero)} \cup
              {Scalar(Float(sign * m, -(MantBits - 1) - j)) :
                  sign \in {-1, 1}, m \in FlowMants, j \in 0..MaxShift}
    /\ tape = None
    /\ fpc = "ready"
    /\ grad_obs = None
    /\ IdleFirst /\ IdleInit /\ IdleCenter /\ IdleData

NextFlow ==
    \/ FEnter
    \/ FWhile
    \/ FIf
    \/ GradientD

(***************************************************************************)
(* Reading the dataset: load_array                                         *)
(***************************************************************************)
MaxN      == 3   \* examples in the data arrays
MaxBS     == 3   \* batch_size
MaxPasses == 2   \* passes over the dataset (epochs)

\* dataset.shuffle(buffer_size=1000)
ShuffleBufferSize == 1000

\* features, labels = d2l.synthetic_data(...): n rows each; the values
\* stand for the rows.
Features(n) == [i \in 1..n |-> 2 * i]

Labels(n) == [i \in 1..n |-> 2 * i + 1]

\* tf.data.Dataset.from_tensor_slices((features, labels)): element i is
\* the pair of row i of each array; idx records which example it is.
FromTensorSlices(data_arrays) ==
    [i \in 1..Len(data_arrays[1]) |->
        [idx |-> i, X |-> data_arrays[1][i], y |-> data_arrays[2][i]]]

\* The dataset load_array returns: the slices, the size of the shuffle
\* buffer (0 when there is no shuffle) and the batch size.
load_array(data_arrays, batch_size, is_train) ==
    [elems |-> FromTensorSlices(data_arrays),
     shuffle |-> IF is_train THEN ShuffleBufferSize ELSE 0,
     batch_size |-> batch_size]

SeqRange(seq) == {seq[j] : j \in DOMAIN seq}

\* The examples the next element can be, taken being those already
\* produced: without shuffle the next in order; with shuffle any of the
\* buffer, which holds the first buffer_size + Len(taken) examples but
\* those produced.
Candidates(ds, taken) ==
    LET n == Len(ds.elems)
        last == IF ds.shuffle = 0
                THEN Len(taken) + 1
                ELSE ds.shuffle + Len(taken)
        first == IF ds.shuffle = 0 THEN Len(taken) + 1 ELSE 1
    IN  {i \in first..(IF last < n THEN last ELSE n) : i \notin SeqRange(taken)}

\* A batch that is cut short is dropped.
BatchSizeDropRemainder(left, batch_size) ==
    IF left < batch_size THEN 0 ELSE batch_size

\* dataset.batch(batch_size): the number of elements of the next batch
\* when left elements remain; the last batch may be smaller.
BatchSize(left, batch_size) ==
    IF left < batch_size THEN left ELSE batch_size

\* The batch of the elements picked: each component stacked on its own.
Stack(ds, pick) ==
    [idx |-> pick,
     X |-> [j \in DOMAIN pick |-> ds.elems[pick[j]].X],
     y |-> [j \in DOMAIN pick |-> ds.elems[pick[j]].y]]

\* data_iter = load_array((features, labels), batch_size)
LoadArray ==
    /\ data_set = None
    /\ \E n \in 1..MaxN, batch_size \in 1..MaxBS, is_train \in BOOLEAN :
          data_set' = load_array(<<Features(n), Labels(n)>>, batch_size, is_train)
    /\ UNCHANGED <<data_it, data_out, device_vars, defer_vars, dense_vars,
                   init_vars, center_vars, grad_vars>>

\* iter(data_iter), for X, y in data_iter: a new pass
Iter ==
    /\ data_set # None
    /\ IF data_it = None THEN TRUE ELSE data_it.done /\ data_it.pass < MaxPasses
    /\ data_it' = [taken |-> <<>>, done |-> FALSE,
                   pass |-> IF data_it = None THEN 1 ELSE data_it.pass + 1]
    /\ data_out' = <<>>
    /\ UNCHANGED <<data_set, device_vars, defer_vars, dense_vars,
                   init_vars, center_vars, grad_vars>>

\* next(iterator): the next batch, or the end of the pass
NextBatch ==
    /\ data_it # None
    /\ ~data_it.done
    /\ LET n == Len(data_set.elems)
           k == BatchSize(n - Len(data_it.taken), data_set.batch_size)
       IN  IF k = 0
           THEN /\ data_it' = [data_it EXCEPT !.done = TRUE]
                /\ data_out' = data_out
           ELSE \E pick \in [1..k -> 1..n] :
                /\ \A j \in 1..k :
                      pick[j] \in Candidates(data_set,
                                     data_it.taken \o SubSeq(pick, 1, j - 1))
                /\ data_it' = [data_it EXCEPT !.taken = @ \o pick]
                /\ data_out' = Append(data_out, Stack(data_set, pick))
    /\ UNCHANGED <<data_set, device_vars, defer_vars, dense_vars,
                   init_vars, center_vars, grad_vars>>

InitData ==
    /\ data_set = None
    /\ data_it = None
    /\ data_out = None
    /\ IdleFirst /\ IdleInit /\ IdleCenter /\ IdleGrad

NextData ==
    \/ LoadArray
    \/ Iter
    \/ NextBatch

(***************************************************************************)
(* Specifications                                                          *)
(***************************************************************************)
SpecDevice == InitDevice /\ [][NextDevice]_vars

SpecDefer == InitDefer /\ [][NextDefer]_vars

SpecDense == InitDense /\ [][NextDense]_vars

SpecInit == InitInit /\ [][NextInit]_vars

SpecCenter == InitCenter /\ [][NextCenter]_vars

SpecGrad == InitGrad /\ [][NextGrad]_vars

SpecFlow == InitFlow /\ [][NextFlow]_vars

SpecData == InitData /\ [][NextData]_vars

(***************************************************************************)
(* Properties                                                              *)
(***************************************************************************)

\* C1: try_gpu(i) returns '/GPU:i' exactly when GPU i is one of the num_gpus
\* available GPUs and '/CPU:0' in every other case, so the device it
\* returns always exists.
C1_TryGpuReturnsExistingDevice ==
    last_dev # None =>
        /\ (last_dev.i \in 0..(num_gpus - 1)) => last_dev.dev = GPU(last_dev.i)
        /\ (last_dev.i \notin 0..(num_gpus - 1)) => last_dev.dev = CPU0
        /\ Exists(last_dev.dev, num_gpus)

\* C2: try_all_gpus() is never empty, has length max(1, num_gpus), lists
\* GPU 0 .. GPU num_gpus-1 in increasing order with no CPU entry when there
\* is a GPU, and is [CPU] when there is none.
C2_TryAllGpus ==
    last_devs # None =>
        LET ds == last_devs.devices
        IN  /\ Len(ds) >= 1
            /\ Len(ds) = (IF num_gpus >= 1 THEN num_gpus ELSE 1)
            /\ num_gpus >= 1 => \A k \in 1..Len(ds) : ds[k] = GPU(k - 1)
            /\ num_gpus = 0 => ds = <<CPU0>>

\* try_all_gpus() was called on a machine with several GPUs.
C2_Witness ==
    /\ last_devs # None
    /\ num_gpus >= 2
    /\ Len(last_devs.devices) = num_gpus

\* C3: an addition whose operands are on different devices fails, and an
\* addition succeeds only when both operands are on the same device.
C3_MismatchedAddFails ==
    last_add # None => (last_add.ok <=> last_add.lhs_dev = last_add.rhs_dev)

\* C4: after `with try_gpu(1): Z = X`, with X created on the first GPU and
\* the scope being the second GPU, Z is on the second GPU and X is still on
\* the first.
C4_AssignMovesToScope ==
    ( /\ last_assign # None
      /\ last_assign.dst = "Z"
      /\ last_assign.src = "X"
      /\ last_assign.scope = GPU(1) ) =>
        (last_assign.src_dev = GPU(0) => last_assign.dst_dev = GPU(1))

\* C5: an assignment under the device scope on which its right-hand side
\* already lives yields the identical tensor and allocates nothing, however
\* often it is repeated.
C5_AssignOnSameDeviceIsIdentity ==
    (last_assign # None /\ last_assign.src_dev = last_assign.scope) =>
        /\ last_assign.dst_id = last_assign.src_id
        /\ last_assign.dst_dev = last_assign.scope
        /\ last_assign.allocated = 0

\* `Z2 = Z` ran under the scope of the GPU on which Z lives, and Z2 is Z.
C5_Witness ==
    /\ last_assign # None
    /\ last_assign.dst = "Z2"
    /\ last_assign.scope.type = "GPU"
    /\ last_assign.src_dev = last_assign.scope
    /\ env["Z2"] = env["Z"]

\* C6: a tensor created outside every device scope is on the CPU, whatever
\* the number of GPUs.
C6_DefaultDeviceIsCpu ==
    Bound("x") => DeviceOf("x") = CPU0

\* C7: until the first forward pass no layer has a parameter: every layer's
\* get_weights() is the empty list, in the model and in what was observed.
C7_NoParametersBeforeForward ==
    /\ (net # None /\ fwd_obs = None) =>
           \A k \in 1..Len(net.layers) : LayerGetWeights(net.layers[k]) = <<>>
    /\ (layer_obs # None /\ ~layer_obs.after_forward) => layer_obs.weights = <<>>

\* A layer's get_weights() was read before any forward pass.
C7_Witness ==
    /\ layer_obs # None
    /\ ~layer_obs.after_forward
    /\ fwd_obs = None

\* C8: after the first forward pass on an input of last dimension d, layer
\* k has a weight of shape (d for the first layer, else the units of layer
\* k-1; its own units) and a bias of shape (its own units); for
\* Sequential([Dense(256), Dense(10)]) that is
\* [(d, 256), (256,), (256, 10), (10,)].
C8_ShapesAfterForward ==
    (net # None /\ fwd_obs # None) =>
        LET d == fwd_obs.first_d
            L == net.layers
        IN  /\ \A k \in 1..Len(L) :
                  L[k].weights =
                      << <<(IF k = 1 THEN d ELSE L[k - 1].units), L[k].units>>,
                         <<L[k].units>> >>
            /\ (Len(L) = 2 /\ L[1].units = 256 /\ L[2].units = 10) =>
                  ConcatWeights(L, 1) = << <<d, 256>>, <<256>>, <<256, 10>>, <<10>> >>

\* net(X) ran on X of shape (2, 20) and the net has the shapes the notebook
\* prints.
C8_Witness ==
    /\ net # None
    /\ fwd_obs # None
    /\ fwd_obs.first_d = 20
    /\ ConcatWeights(net.layers, 1) = << <<20, 256>>, <<256>>, <<256, 10>>, <<10>> >>

\* C9: net.get_weights() throws before the first forward pass and succeeds
\* after it.
C9_NetGetWeightsNeedsForward ==
    net_obs # None => (net_obs.result.ok <=> net_obs.after_forward)

\* net.get_weights() was called before any forward pass, and threw.
C9_Witness ==
    /\ net_obs # None
    /\ ~net_obs.after_forward
    /\ ~net_obs.result.ok

\* The element (r, c) of xW + b.
Affine(r, c) ==
    Dot(dense_in, dense.weight, r, c, Cols(dense_in)) + dense.bias[c]

\* C10 as claimed: MyDense.call(x) equals xW + b.
C10_CallIsAffine ==
    (dense_obs # None /\ dense_obs.ok) =>
        \A r \in 1..Rows(dense_in) : \A c \in 1..dense.units :
            dense_obs.out[r][c] = Affine(r, c)

\* C10 as amended: MyDense.call(x) equals relu(xW + b), each element of
\* xW + b that is negative being replaced by 0; the result has one row per
\* row of x and one column per unit.
C10_CallIsReluOfAffine ==
    (dense_obs # None /\ dense_obs.ok) =>
        /\ Len(dense_obs.out) = Rows(dense_in)
        /\ \A r \in 1..Rows(dense_in) :
            /\ Len(dense_obs.out[r]) = dense.units
            /\ \A c \in 1..dense.units :
                dense_obs.out[r][c] = (IF Affine(r, c) < 0 THEN 0 ELSE Affine(r, c))

\* The layer was called with a nonzero bias on an input where an element of
\* xW + b is negative.
C10_Witness ==
    /\ dense_obs # None
    /\ dense_obs.ok
    /\ \E c \in 1..dense.units : dense.bias[c] # 0
    /\ \E r \in 1..Rows(dense_in) : \E c \in 1..dense.units :
           Affine(r, c) < 0 /\ dense_obs.out[r][c] = 0

\* C11 as claimed: every element MyInit returns is exactly 0 or has
\* absolute value in [5, 10), and it is 0 exactly when the uniform draw has
\* magnitude below 5.
C11_MagnitudeInHalfOpenRange ==
    init_obs # None =>
        \A k \in 1..Len(init_obs.out) :
            /\ \/ init_obs.out[k] = 0
               \/ (5 <= Abs(init_obs.out[k]) /\ Abs(init_obs.out[k]) < 10)
            /\ init_obs.out[k] = 0 <=> Abs(init_data[k]) < 5

\* C11 as amended: every element MyInit returns is exactly 0 or is the draw
\* itself, lying in [-10, -5] or in [5, 10) (the draw -10 is possible, the
\* draw 10 is not); it is 0 exactly when the draw has magnitude below 5,
\* and the result has the shape asked for.
C11_MagnitudeFilteredByThreshold ==
    init_obs # None =>
        /\ Len(init_obs.out) = init_obs.shape
        /\ \A k \in 1..Len(init_obs.out) :
            /\ \/ init_obs.out[k] = 0
               \/ /\ init_obs.out[k] = init_data[k]
                  /\ \/ (-10 <= init_obs.out[k] /\ init_obs.out[k] <= -5)
                     \/ (5 <= init_obs.out[k] /\ init_obs.out[k] < 10)
            /\ init_obs.out[k] = 0 <=> Abs(init_data[k]) < 5

\* The initializer was called on a draw with one element kept at the
\* threshold and one element zeroed.
C11_Witness ==
    /\ init_obs # None
    /\ \E k \in 1..Len(init_obs.out) : Abs(init_obs.out[k]) = 5
    /\ \E k \in 1..Len(init_obs.out) : init_data[k] # 0 /\ init_obs.out[k] = 0

\* C12: every output element of CenteredLayer is the input element minus
\* one mean taken over all elements of the input (the mean reduce_mean
\* gives in the input's type), the output has the shape of the input, and
\* the layer has no parameters before or after its calls.
C12_SubtractsGlobalMean ==
    /\ center # None => center.weights = <<>>
    /\ center_obs # None =>
        LET in == center_in
            out == center_obs.out
            m == in[1][1] - out[1][1]
            rem == ReduceSum(in) - Size(in) * m
        IN  /\ Rows(out) = Rows(in)
            /\ \A r \in 1..Rows(in) :
                /\ Len(out[r]) = Cols(in)
                /\ \A c \in 1..Cols(in) : out[r][c] = in[r][c] - m
            /\ Abs(rem) < Size(in)
            /\ rem * ReduceSum(in) >= 0
            /\ center_obs.weights = <<>>

\* The layer was called on an input of several rows whose rows have
\* different sums, and the mean it subtracted is not zero.
C12_Witness ==
    /\ center_obs # None
    /\ Rows(center_in) >= 2
    /\ SumSeq(center_in[1], Cols(center_in)) # SumSeq(center_in[2], Cols(center_in))
    /\ center_obs.out # center_in

\* C13 as claimed: the mean of all output elements of CenteredLayer is
\* zero, for every input.
C13_OutputMeanIsZero ==
    center_obs # None => ReduceSum(center_obs.out) = 0

\* C13 as amended: for an integer input, the output elements sum to the
\* remainder of the input sum by the element count, so their mean taken in
\* the input's integer type is 0, and their sum is 0 exactly when the
\* element count divides the input sum.
C13_OutputMeanTruncatesToZero ==
    center_obs # None =>
        LET n == Size(center_in)
            s_in == ReduceSum(center_in)
            s_out == ReduceSum(center_obs.out)
        IN  /\ Abs(s_out) < n
            /\ TruncDiv(s_out, n) = 0
            /\ s_out = 0 <=> (s_in % n = 0)

\* The layer was called on an input whose sum the element count does not
\* divide.
C13_Witness ==
    /\ center_obs # None
    /\ ReduceSum(center_in) % Size(center_in) # 0
    /\ ReduceSum(center_obs.out) # 0

\* The vector x with every element multiplied by c.
Times(c, x) == Vector([k \in DOMAIN x.data |-> c * x.data[k]])

\* The vector x squared, element by element.
Squared(x) == Vector([k \in DOMAIN x.data |-> x.data[k] * x.data[k]])

\* C14: the gradient of y = 2 * <x, x> with respect to x is 4 * x in every
\* component and has the shape of x.
C14_GradientOfDotIs4x ==
    (grad_obs # None /\ grad_obs.cell = "dot" /\ grad_obs.ok) =>
        /\ grad_obs.grad = Times(4, gx)
        /\ grad_obs.grad.rank = gx.rank
        /\ Len(grad_obs.grad.data) = Len(gx.data)

\* t.gradient(y, x) was taken for y = 2 * <x, x> at an x that is not zero.
C14_Witness ==
    /\ grad_obs # None
    /\ grad_obs.cell = "dot"
    /\ grad_obs.ok
    /\ \E k \in DOMAIN gx.data : gx.data[k] # 0

\* C15: with y = x * x, u = stop_gradient(y), z = u * x on one tape, the
\* gradient of z with respect to x is u (that is x * x) in every component,
\* and not 3 * x * x wherever x is not zero; the gradient of y with respect
\* to x is still 2 * x.
C15_DetachedGradient ==
    (grad_obs # None /\ grad_obs.cell = "detach" /\ grad_obs.ok) =>
        /\ grad_obs.target = "z" =>
              /\ grad_obs.grad = Squared(gx)
              /\ tape.cell = "detach" =>
                    grad_obs.grad = Value(tape.nodes, gx, tape.names["u"])
              /\ \A k \in DOMAIN gx.data :
                    gx.data[k] # 0 => grad_obs.grad.data[k] # 3 * gx.data[k] * gx.data[k]
        /\ grad_obs.target = "y" => grad_obs.grad = Times(2, gx)

\* t.gradient(z, x) was taken on the detaching tape at an x that is not
\* zero.
C15_Witness ==
    /\ grad_obs # None
    /\ grad_obs.cell = "detach"
    /\ grad_obs.target = "z"
    /\ grad_obs.ok
    /\ \E k \in DOMAIN gx.data : gx.data[k] # 0

\* C16: a gradient call succeeds exactly when the tape is persistent or the
\* call is the first on its tape; on the persistent tape every call,
\* whatever its number, returns the derivative of the target asked for.
C16_TapeLifecycle ==
    grad_obs # None =>
        /\ grad_obs.ok <=> (grad_obs.persistent \/ grad_obs.nth = 1)
        /\ (grad_obs.persistent /\ grad_obs.cell = "detach") =>
              /\ grad_obs.ok
              /\ grad_obs.grad =
                    (IF grad_obs.target = "z" THEN Squared(gx) ELSE Times(2, gx))

\* A second gradient was taken from the persistent tape, for y.
C16_Witness ==
    /\ grad_obs # None
    /\ grad_obs.persistent
    /\ grad_obs.nth = 2
    /\ grad_obs.target = "y"
    /\ grad_obs.ok

\* C17: once the gradient of d = f(a) with respect to a is taken, it
\* equals d / a: the cell d_grad == d / a is True.
C17_FlowGradientIsDOverA ==
    (grad_obs # None /\ grad_obs.cell = "f" /\ grad_obs.ok) =>
        LET a == gx.data[1]
            d == FValue(tape.nodes, a, tape.names["d"])
            k == grad_obs.grad.data[1]
        IN  Round(k, 0) = FDiv(d, a)

\* The examples the batches hold, in the order they were yielded.
RECURSIVE Yielded(_, _)
Yielded(batches, k) ==
    IF k = 0 THEN <<>> ELSE Yielded(batches, k - 1) \o batches[k].idx

\* C18: in a pass over the dataset of load_array no example is yielded
\* twice and, once the pass has ended, every example has been yielded; a
\* batch holds at each position the feature row and the label of one
\* example; every batch has batch_size examples but possibly the last,
\* which has at least one; a pass of n examples has ceil(n / batch_size)
\* batches.
C18_OnePassYieldsEachExampleOnce ==
    data_it # None =>
        LET n == Len(data_set.elems)
            bs == data_set.batch_size
            all == Yielded(data_out, Len(data_out))
        IN  /\ \A i, j \in DOMAIN all : all[i] = all[j] => i = j
            /\ \A b \in DOMAIN data_out :
                  LET batch == data_out[b]
                  IN  /\ DOMAIN batch.X = DOMAIN batch.idx
                      /\ DOMAIN batch.y = DOMAIN batch.idx
                      /\ \A j \in DOMAIN batch.idx :
                            /\ batch.X[j] = Features(n)[batch.idx[j]]
                            /\ batch.y[j] = Labels(n)[batch.idx[j]]
                      /\ Len(batch.idx) \in 1..bs
                      /\ b < Len(data_out) => Len(batch.idx) = bs
            /\ data_it.done =>
                  /\ SeqRange(all) = 1..n
                  /\ Len(data_out) = (n + bs - 1) \div bs

\* A shuffled pass has ended whose last batch is short and whose first
\* batch does not start with the first example.
C18_Witness ==
    /\ data_it # None
    /\ data_it.done
    /\ data_set.shuffle # 0
    /\ Len(data_set.elems) % data_set.batch_size # 0
    /\ Len(data_out) >= 2
    /\ data_out[1].idx[1] # 1
    /\ Len(data_out[Len(data_out)].idx) < data_set.batch_size

====
